---- MODULE Spec2Model ----
(***************************************************************************)
(* State-machine model of brainstorm/data_iterators.py: the base iterators *)
(* Undivided, Online and Minibatches, the decorators AddGaussianNoise,     *)
(* Flip, Pad and RandomCrop, the generators their __call__ methods create, *)
(* the progress bar coroutine and the text written to stdout.              *)
(*                                                                         *)
(* Arrays are records [shape, flat]: the shape tuple and the cells in      *)
(* C order.  A named batch is a function from names to arrays together     *)
(* with the identity of the dict object that holds it (alias): Undivided   *)
(* yields its own data dict, Online and Minibatches build a fresh dict.    *)
(***************************************************************************)
EXTENDS Integers, Sequences, FiniteSets, TLC

\* ------------------------------------------------------------------ bounds
MaxB == 3            \* largest sample extent of a dataset
MaxBatch == 2        \* largest batch_size given to Minibatches
MaxSeed == 1         \* seeds of base iterators are drawn from 0..MaxSeed
MaxDecorators == 2   \* decorator objects constructed in one behaviour
MaxCalls == 2        \* invocations of __call__ by the consumer
MaxPad == 1          \* largest pad size given to Pad
MinBatch == 0 - 1    \* smallest batch_size given to Minibatches

\* ------------------------------------------------------- program constants
BarLen == 50         \* len('====1====2====3====4====5====6====7====8====9====0')
RndMod == 16         \* number of states of the stand-in random generator
RndInc == 7          \* its increment

\* ----------------------------------------------------------------- helpers
Min(a, b) == IF a < b THEN a ELSE b
Max(a, b) == IF a > b THEN a ELSE b

RECURSIVE Prod(_)
Prod(s) == IF Len(s) = 0 THEN 1 ELSE Head(s) * Prod(Tail(s))

\* number of cells one step along each axis skips (C order)
Strides(shape) ==
    [i \in 1..Len(shape) |-> Prod(SubSeq(shape, i + 1, Len(shape)))]

\* index tuple (0-based components) of the k-th cell, k 0-based
Unlin(shape, st, k) == [i \in 1..Len(shape) |-> (k \div st[i]) % shape[i]]

\* position in flat (1-based) of the cell with index tuple idx
RECURSIVE LinFrom(_, _, _)
LinFrom(st, idx, i) ==
    IF i > Len(st) THEN 1 ELSE idx[i] * st[i] + LinFrom(st, idx, i + 1)

\* Python slice bounds on an axis of extent n: negative counts from the end,
\* both ends are clamped
PyNorm(x, n) == IF x < 0 THEN Max(x + n, 0) ELSE Min(x, n)
SliceStart(lo, hi, n) == PyNorm(lo, n)
SliceLen(lo, hi, n) == Max(0, PyNorm(hi, n) - PyNorm(lo, n))

\* a[:, lo:hi] (basic slicing of the second axis)
SliceSamples(a, lo, hi) ==
    LET n     == a.shape[2]
        first == SliceStart(lo, hi, n)
        shape == [a.shape EXCEPT ![2] = SliceLen(lo, hi, n)]
        st    == Strides(shape)
        ast   == Strides(a.shape)
    IN  [shape |-> shape,
         flat  |-> [k \in 1..Prod(shape) |->
                      LET idx == Unlin(shape, st, k - 1)
                      IN  a.flat[LinFrom(ast, [idx EXCEPT ![2] = idx[2] + first], 1)]]]

\* FlipLast that returns the array as it is
FlipLastNot(a) == [shape |-> a.shape, flat |-> a.flat]

\* a[..., ::-1]
FlipLast(a) ==
    LET n  == Len(a.shape)
        st == Strides(a.shape)
    IN  [shape |-> a.shape,
         flat  |-> [k \in 1..Len(a.flat) |->
                      LET idx == Unlin(a.shape, st, k - 1)
                      IN  a.flat[LinFrom(st, [idx EXCEPT
                                     ![n] = a.shape[n] - 1 - idx[n]], 1)]]]

\* ------------------------------------------------------ random generators
\* Seedable gives every iterator its own generator, self.rnd.  The generator
\* is a deterministic function of its state; a small full-period additive
\* generator stands in for it.  draws counts the values taken from it.
NewRnd(seed) == [state |-> seed % RndMod, draws |-> 0]
\* the generator after n draws
RndSkip(r, n) ==
    [state |-> (r.state + RndInc * n) % RndMod, draws |-> r.draws + n]
RndStep(r) == RndSkip(r, 1)
\* value of the next draw: integer in lo..hi
RndInt(r, lo, hi) == lo + (r.state % (hi - lo + 1))
\* value of the next draw: uniform sample in [0,1) in percent
RndPercent(r) == (r.state * 100) \div RndMod
\* value of the next draw: standard normal sample, one of -1, 0, 1
RndNormal(r) == (r.state % 3) - 1

\* rnd.random_integers(lo, hi, n): n values, each in lo..hi
RandomIntegers(r, lo, hi, n) ==
    [k \in 1..n |-> RndInt(RndSkip(r, k - 1), lo, hi)]

Swap(s, i, j) == [s EXCEPT ![i] = s[j], ![j] = s[i]]

\* rnd.shuffle(x): for i = len-1 down to 1, swap x[i] with x[j], j drawn
\* from 0..i (positions here are 1-based)
RECURSIVE ShuffleFrom(_, _, _)
ShuffleFrom(x, r, i) ==
    IF i < 1 THEN x
    ELSE ShuffleFrom(Swap(x, i + 1, RndInt(r, 0, i) + 1), RndStep(r), i - 1)
Shuffle(x, r) == ShuffleFrom(x, r, Len(x) - 1)
ShuffleDraws(x) == Max(Len(x) - 1, 0)

\* np.arange(n)
Arange(n) == [k \in 1..Max(n, 0) |-> k - 1]

\* math.ceil(n / k) for n >= 0 and k # 0 (true division, so the quotient of
\* a negative k is rounded towards zero)
CeilDiv(n, k) ==
    IF k > 0 THEN (n + k - 1) \div k ELSE 0 - (n \div (0 - k))

\* ------------------------------------------------------------ progress bar
\* A chunk of text written to stdout: prefix (pre), bar[lo:hi], suffix (suf).
Chunk(pre, lo, hi, suf) == [pre |-> pre, lo |-> lo, hi |-> hi, suf |-> suf]
\* number of bar characters in a chunk (bar[lo:hi] clamps like any slice)
ChunkBarLen(c) == SliceLen(c.lo, c.hi, BarLen)

\* UseProgressBar in which the flag of the call wins over the own setting
UseProgressBarFlagWins(setting, flag) == flag \/ setting = "True"

\* (self.verbose is None and verbose) or self.verbose
UseProgressBar(setting, flag) == (setting = "None" /\ flag) \/ setting = "True"

\* state of the reporter after next(p_bar): progress_bar has yielded the
\* prefix and waits in its loop with i = 0, holding the maximum it was
\* created with (progress_bar(self.nr_sequences)) for the whole pass; silence
\* takes no maximum and waits in its own loop
PbarStart(active, maximum) ==
    [active |-> active, maximum |-> IF active THEN maximum ELSE 0,
     i |-> 0, fin |-> FALSE]

\* 2^e mod n
RECURSIVE Pow2Mod(_, _)
Pow2Mod(e, n) == IF e = 0 THEN 1 % n ELSE (2 * Pow2Mod(e - 1, n)) % n

\* 2^e for e >= 0
RECURSIVE Pow2(_)
Pow2(e) == IF e = 0 THEN 1 ELSE 2 * Pow2(e - 1)

\* the binary exponent of p / n for p, n >= 1: the m with
\* 2^m <= p / n < 2^(m + 1)
RECURSIVE Log2Up(_, _, _)
Log2Up(p, n, m) == IF 2 * Pow2(m) * n <= p THEN Log2Up(p, n, m + 1) ELSE m
RECURSIVE Log2Down(_, _, _)
Log2Down(p, n, t) == IF p * Pow2(t) < n THEN Log2Down(p, n, t + 1) ELSE 0 - t
Log2Floor(p, n) == IF p >= n THEN Log2Up(p, n, 0) ELSE Log2Down(p, n, 0)

\* math.trunc(progress / maximum * len(bar)) for progress >= 0 and
\* maximum >= 1, in the double arithmetic of the code.  The division is
\* rounded to 53 bits, then the product is.  When the exact value
\* progress * len(bar) / maximum is no integer, the two roundings cannot
\* carry the product across an integer and the result is the integer
\* quotient.  When it is an integer q, the product is q only if the rounded
\* quotient, times len(bar), rounds back to q: with r / maximum the part of
\* progress / maximum below its 53rd bit, a quotient rounded down
\* (0 < r / maximum < 1/2) leaves the product below q by
\* len(bar) * r / maximum units of that bit, which rounds to the double
\* below q, and truncates to q - 1, when it is more than half the distance
\* from q to that double.  29 / 25 * 50 is 57 and 29 / 50 * 50 is 28.
FloatTruncQuot(progress, maximum) ==
    LET exact == (progress * BarLen) \div maximum
    IN  IF progress = 0 \/ (progress * BarLen) % maximum # 0 THEN exact
        ELSE LET m    == Log2Floor(progress, maximum)
                 k    == Log2Floor(exact, 1)
                 r    == ((progress % maximum) * Pow2Mod(52 - m, maximum))
                            % maximum
                 half == IF exact = Pow2(k) THEN 4 * BarLen * r
                                            ELSE 2 * BarLen * r
             IN  IF r # 0 /\ 2 * r < maximum /\ half > maximum * Pow2(k - m)
                 THEN exact - 1 ELSE exact

\* p_bar.send(progress): the reporter's new state, the text it yields, and
\* whether the coroutine had already returned its last string.  j is
\* math.trunc(progress / maximum * len(bar)), which truncates towards zero.
PbarSend(p, progress) ==
    IF ~p.active THEN [pbar |-> p, out |-> << >>, raised |-> FALSE]
    ELSE IF p.fin THEN [pbar |-> p, out |-> << >>, raised |-> TRUE]
    ELSE LET j == IF progress >= 0 THEN FloatTruncQuot(progress, p.maximum)
                  ELSE 0 - FloatTruncQuot(0 - progress, p.maximum)
         IN  [pbar |-> [p EXCEPT !.i = j, !.fin = ~(j < BarLen)],
              out |-> << Chunk(FALSE, p.i, j, ~(j < BarLen)) >>,
              raised |-> FALSE]

\* ------------------------------------------------------------- data format
Names == {"default", "targets"}

SetMin(S) == CHOOSE x \in S : \A y \in S : x <= y
SetMax(S) == CHOOSE x \in S : \A y \in S : y <= x

Raise(exc) == [tag |-> "raise", exc |-> exc, value |-> 0]
Return(v) == [tag |-> "ok", exc |-> "", value |-> v]

\* A value that has no shape attribute (a Python list)
NoShape == [items |-> << 1, 2 >>]
\* hasattr(data, 'shape')
HasShape(data) == "shape" \in DOMAIN data

\* _assert_correct_data_format(named_data): the loop raises at the first
\* entry without a shape or of rank < 3; min() of no values raises ValueError
AssertCorrectDataFormat(named_data) ==
    LET nr_sequences == {named_data[n].shape[2] : n \in DOMAIN named_data}
        nr_timesteps == {named_data[n].shape[1] : n \in DOMAIN named_data}
    IN  IF \E n \in DOMAIN named_data :
              ~HasShape(named_data[n]) \/ Len(named_data[n].shape) < 3
          THEN Raise("IteratorValidationError")
        ELSE IF DOMAIN named_data = {}
          THEN Raise("ValueError")       \* min() of an empty sequence
        ELSE IF SetMin(nr_sequences) # SetMax(nr_sequences)
          THEN Raise("IteratorValidationError")
        ELSE IF SetMin(nr_timesteps) # SetMax(nr_timesteps)
          THEN Raise("IteratorValidationError")
        ELSE Return(SetMin(nr_sequences))

RECURSIVE SumOver(_, _)
SumOver(S, f) ==
    IF S = {} THEN 0
    ELSE LET x == CHOOSE y \in S : TRUE IN f[x] + SumOver(S \ {x}, f)

\* ---------------------------------------------------------------- objects
NoMap == [n \in {} |-> 0]
None == [some |-> FALSE, map |-> NoMap]
\* A dict whose keys the code iterates over: its entries and the insertion
\* order of its keys, the order `for key in d.keys()` runs in
Dict(keys, map) == [keys |-> keys, map |-> map]
NoDict == Dict(<< >>, NoMap)
Some(m) == [some |-> TRUE, map |-> m]

\* One record type for all iterator objects; the fields a class does not
\* have keep the defaults given here (hasdata says whether the object has a
\* data attribute at all).
Object(kind) ==
    [kind |-> kind, hasdata |-> FALSE, data |-> NoMap, data_names |-> {},
     iter |-> 0, cfg |-> NoMap, keys |-> << >>, aux |-> NoMap,
     shuffle |-> FALSE, verbose |-> "False", batch_size |-> 0,
     nr_sequences |-> 0, size |-> 0, rnd |-> NewRnd(0), seeded |-> FALSE]

\* The constructors of the base iterators, for a mapping that
\* _assert_correct_data_format accepts.

\* Undivided.__init__
Undivided(named_data) ==
    [Object("Undivided") EXCEPT
        !.hasdata = TRUE, !.data = named_data,
        !.data_names = DOMAIN named_data,
        !.size = SumOver(DOMAIN named_data,
                         [n \in DOMAIN named_data |-> Prod(named_data[n].shape)])]

\* Online.__init__
Online(shuffle, verbose, seed, named_data) ==
    [Object("Online") EXCEPT
        !.hasdata = TRUE, !.data = named_data,
        !.data_names = DOMAIN named_data,
        !.rnd = NewRnd(seed), !.seeded = TRUE,
        !.nr_sequences = AssertCorrectDataFormat(named_data).value,
        !.shuffle = shuffle, !.verbose = verbose,
        !.size = SumOver(DOMAIN named_data,
                    [n \in DOMAIN named_data |->
                        named_data[n].shape[1] *
                        Prod(SubSeq(named_data[n].shape, 3,
                                    Len(named_data[n].shape)))])]

\* Minibatches.__init__
Minibatches(batch_size, shuffle, verbose, seed, named_data) ==
    [Object("Minibatches") EXCEPT
        !.hasdata = TRUE, !.data = named_data,
        !.data_names = DOMAIN named_data,
        !.rnd = NewRnd(seed), !.seeded = TRUE,
        !.nr_sequences = AssertCorrectDataFormat(named_data).value,
        !.shuffle = shuffle, !.verbose = verbose,
        !.batch_size = batch_size,
        !.size = SumOver(DOMAIN named_data,
                    [n \in DOMAIN named_data |->
                        named_data[n].shape[1] *
                        Prod(SubSeq(named_data[n].shape, 3,
                                    Len(named_data[n].shape))) * batch_size])]

\* The constructors of the base iterators for any mapping: the validator
\* runs before the object gets its data.
UndividedInit(data) ==
    IF AssertCorrectDataFormat(data).tag = "raise"
    THEN AssertCorrectDataFormat(data) ELSE Return(Undivided(data))

OnlineInit(shuffle, verbose, seed, data) ==
    IF AssertCorrectDataFormat(data).tag = "raise"
    THEN AssertCorrectDataFormat(data)
    ELSE Return(Online(shuffle, verbose, seed, data))

MinibatchesInit(batch_size, shuffle, verbose, seed, data) ==
    IF AssertCorrectDataFormat(data).tag = "raise"
    THEN AssertCorrectDataFormat(data)
    ELSE Return(Minibatches(batch_size, shuffle, verbose, seed, data))

\* ------------------------------------------------- decorator construction
\* The dict a constructor loops over (std_dict, prob_dict, size_dict,
\* shape_dict) is a Dict; every key that fails a check of the loop raises the
\* same exception class, so the order of the keys decides nothing there.
\* Each constructor reads iter.data once per configured key; a decorator
\* object has no data attribute (DataIterator.__init__ sets data_names only),
\* so that read raises AttributeError when the inner iterator is a decorator.

\* AddGaussianNoise.__init__
AddGaussianNoiseInit(its, iter, std_dict, mean_dict, seed) ==
    LET inner == its[iter] IN
    IF mean_dict.some /\ DOMAIN mean_dict.map # DOMAIN std_dict.map
      THEN Raise("AssertionError")
    ELSE IF DOMAIN std_dict.map # {} /\ ~inner.hasdata
      THEN Raise("AttributeError")
    ELSE IF \E key \in DOMAIN std_dict.map : key \notin DOMAIN inner.data
      THEN Raise("IteratorValidationError")
    ELSE Return([Object("AddGaussianNoise") EXCEPT
                    !.data_names = inner.data_names, !.iter = iter,
                    !.rnd = NewRnd(seed), !.seeded = TRUE,
                    !.cfg = std_dict.map, !.keys = std_dict.keys,
                    !.aux = IF mean_dict.some THEN mean_dict.map ELSE NoMap])

\* Flip.__init__ (probabilities in percent)
FlipInit(its, iter, prob_dict_arg, seed) ==
    LET inner == its[iter]
        given     == IF prob_dict_arg.some THEN prob_dict_arg.map
                     ELSE Dict(<< "default" >>, [n \in {"default"} |-> 50])
        prob_dict == given.map
    IN  IF DOMAIN prob_dict # {} /\ ~inner.hasdata
          THEN Raise("AttributeError")
        ELSE IF \E key \in DOMAIN prob_dict :
                   \/ key \notin DOMAIN inner.data
                   \/ prob_dict[key] > 100 \/ prob_dict[key] < 0
                   \/ Len(inner.data[key].shape) # 5
          THEN Raise("IteratorValidationError")
        ELSE Return([Object("Flip") EXCEPT
                        !.data_names = inner.data_names, !.iter = iter,
                        !.rnd = NewRnd(seed), !.seeded = TRUE,
                        !.cfg = prob_dict, !.keys = given.keys])

\* Pad.__init__
PadInit(its, iter, size_dict, value_dict, seed) ==
    LET inner == its[iter] IN
    IF value_dict.some /\ DOMAIN size_dict.map # DOMAIN value_dict.map
      THEN Raise("IteratorValidationError")
    ELSE IF DOMAIN size_dict.map # {} /\ ~inner.hasdata
      THEN Raise("AttributeError")
    ELSE IF \E key \in DOMAIN size_dict.map :
               \/ key \notin DOMAIN inner.data
               \/ Len(inner.data[key].shape) # 5
      THEN Raise("IteratorValidationError")
    ELSE Return([Object("Pad") EXCEPT
                    !.data_names = inner.data_names, !.iter = iter,
                    !.rnd = NewRnd(seed), !.seeded = TRUE,
                    !.cfg = size_dict.map, !.keys = size_dict.keys,
                    !.aux = IF value_dict.some THEN value_dict.map ELSE NoMap])

\* RandomCrop.__init__ (crop shapes are tuples)
RandomCropInit(its, iter, shape_dict, seed) ==
    LET inner == its[iter] IN
    IF DOMAIN shape_dict.map # {} /\ ~inner.hasdata
      THEN Raise("AttributeError")
    ELSE IF \E key \in DOMAIN shape_dict.map :
               \/ key \notin DOMAIN inner.data
               \/ Len(inner.data[key].shape) # 5
               \/ Len(shape_dict.map[key]) # 2
               \/ shape_dict.map[key][1] > inner.data[key].shape[4]
               \/ shape_dict.map[key][1] < 0
               \/ shape_dict.map[key][2] > inner.data[key].shape[5]
               \/ shape_dict.map[key][2] < 0
      THEN Raise("IteratorValidationError")
    ELSE Return([Object("RandomCrop") EXCEPT
                    !.data_names = inner.data_names, !.iter = iter,
                    !.rnd = NewRnd(seed), !.seeded = TRUE,
                    !.cfg = shape_dict.map, !.keys = shape_dict.keys])

\* ------------------------------------------------- per-batch transformations
Get(map, key, default) == IF key \in DOMAIN map THEN map[key] ELSE default

\* Pad.__call__, body of the loop over names, for one array:
\*   new_data = val * np.ones((t, b, c, h + 2 * size, w + 2 * size))
\*   new_data[:, :, :, size: -size, size: -size] = data[name]
\* np.ones rejects a negative extent; the assignment broadcasts the source
\* to the target region and fails when an extent is neither equal nor 1.
PadFails(a, size) ==
    LET h  == a.shape[4]
        w  == a.shape[5]
        nh == h + 2 * size
        nw == w + 2 * size
    IN  \/ Len(a.shape) # 5
        \/ nh < 0 \/ nw < 0
        \/ ~(h = SliceLen(size, -size, nh) \/ h = 1)
        \/ ~(w = SliceLen(size, -size, nw) \/ w = 1)

PadArray(a, size, val) ==
    LET h     == a.shape[4]
        w     == a.shape[5]
        nh    == h + 2 * size
        nw    == w + 2 * size
        rs    == SliceStart(size, -size, nh)
        re    == SliceLen(size, -size, nh)
        cs    == SliceStart(size, -size, nw)
        ce    == SliceLen(size, -size, nw)
        shape == [a.shape EXCEPT ![4] = nh, ![5] = nw]
        st    == Strides(shape)
        ast   == Strides(a.shape)
    IN  [shape |-> shape,
         flat  |-> [k \in 1..Prod(shape) |->
                      LET idx == Unlin(shape, st, k - 1)
                      IN  IF /\ rs <= idx[4] /\ idx[4] < rs + re
                             /\ cs <= idx[5] /\ idx[5] < cs + ce
                          THEN a.flat[LinFrom(ast, [idx EXCEPT
                                  ![4] = IF h = re THEN idx[4] - rs ELSE 0,
                                  ![5] = IF w = ce THEN idx[5] - cs ELSE 0], 1)]
                          ELSE val]]

\* _crop_images(data, crop_h, crop_w, row_indices, col_indices, cropped):
\* for every time step, sample and channel the window of crop_h by crop_w
\* cells that starts at the sample's offsets
CropImages(a, crop_h, crop_w, row_indices, col_indices) ==
    LET shape == [a.shape EXCEPT ![4] = crop_h, ![5] = crop_w]
        st    == Strides(shape)
        ast   == Strides(a.shape)
    IN  [shape |-> shape,
         flat  |-> [k \in 1..Prod(shape) |->
                      LET idx == Unlin(shape, st, k - 1)
                      IN  a.flat[LinFrom(ast, [idx EXCEPT
                                  ![4] = idx[4] + row_indices[idx[2] + 1],
                                  ![5] = idx[5] + col_indices[idx[2] + 1]], 1)]]]

\* data + std * rnd.standard_normal(data.shape) + mean
AddNoise(a, std, mean, r) ==
    [shape |-> a.shape,
     flat  |-> [k \in 1..Len(a.flat) |->
                   a.flat[k] + std * RndNormal(RndSkip(r, k - 1)) + mean]]

\* A loop state: the dict being rewritten, the decorator's generator, whether
\* an exception has left the loop, the offsets RandomCrop drew last, and the
\* names whose entry still is the array object the decorator received (an
\* assignment data[name] = <expression> binds the name to a new object).
LoopState(data, r) ==
    [data |-> data, rnd |-> r, exc |-> "", rows |-> << >>, cols |-> << >>,
     kept |-> DOMAIN data]

\* NoiseStep that adds to the array it received (data[key] += ...)
NoiseStepInPlace(obj, st, key) ==
    LET a == st.data[key]
    IN  [st EXCEPT !.data = [st.data EXCEPT ![key] =
                        AddNoise(a, obj.cfg[key], Get(obj.aux, key, 0), st.rnd)],
                   !.rnd = RndSkip(st.rnd, Len(a.flat))]

\* Body of `for key in self.std_dict.keys()` in AddGaussianNoise.__call__:
\* data[key] + ... is a new array, to which the name is bound
NoiseStep(obj, st, key) ==
    LET a == st.data[key]
    IN  [st EXCEPT !.data = [st.data EXCEPT ![key] =
                        AddNoise(a, obj.cfg[key], Get(obj.aux, key, 0), st.rnd)],
                   !.rnd = RndSkip(st.rnd, Len(a.flat)),
                   !.kept = @ \ {key}]

\* Body of `for name in self.prob_dict.keys()` in Flip.__call__
FlipStep(obj, st, name) ==
    IF RndPercent(st.rnd) < obj.cfg[name]
    THEN [st EXCEPT !.data = [st.data EXCEPT ![name] = FlipLast(st.data[name])],
                    !.rnd = RndStep(st.rnd),
                    !.kept = @ \ {name}]
    ELSE [st EXCEPT !.rnd = RndStep(st.rnd)]

\* PadStep that takes one value from the decorator's generator
PadStepDrawing(obj, st, name) ==
    IF PadFails(st.data[name], obj.cfg[name])
    THEN [st EXCEPT !.exc = "ValueError"]
    ELSE [st EXCEPT !.data = [st.data EXCEPT ![name] =
                        PadArray(st.data[name], obj.cfg[name],
                                 Get(obj.aux, name, 0))],
                    !.rnd = RndStep(st.rnd)]

\* Body of `for name in self.size_dict.keys()` in Pad.__call__
PadStep(obj, st, name) ==
    IF PadFails(st.data[name], obj.cfg[name])
    THEN [st EXCEPT !.exc = "ValueError"]
    ELSE [st EXCEPT !.data = [st.data EXCEPT ![name] =
                        PadArray(st.data[name], obj.cfg[name],
                                 Get(obj.aux, name, 0))],
                    !.kept = @ \ {name}]

\* Body of `for name in self.shape_dict.keys()` in RandomCrop.__call__;
\* random_integers(0, max, n) raises ValueError when max < 0
RandomCropStep(obj, st, name) ==
    LET a          == st.data[name]
        crop_h     == obj.cfg[name][1]
        crop_w     == obj.cfg[name][2]
        batch_size == a.shape[2]
        max_r      == a.shape[4] - crop_h
        max_c      == a.shape[5] - crop_w
        r1         == RndSkip(st.rnd, batch_size)
        r2         == RndSkip(r1, batch_size)
    IN  IF max_r < 0 THEN [st EXCEPT !.exc = "ValueError"]
        ELSE IF max_c < 0 THEN [st EXCEPT !.exc = "ValueError", !.rnd = r1]
        ELSE LET row_indices == RandomIntegers(st.rnd, 0, max_r, batch_size)
                 col_indices == RandomIntegers(r1, 0, max_c, batch_size)
             IN  [st EXCEPT
                    !.data = [st.data EXCEPT ![name] =
                        CropImages(a, crop_h, crop_w, row_indices, col_indices)],
                    !.rnd = r2, !.rows = row_indices, !.cols = col_indices,
                    !.kept = @ \ {name}]

TransformStep(obj, st, name) ==
    CASE obj.kind = "AddGaussianNoise" -> NoiseStep(obj, st, name)
      [] obj.kind = "Flip"             -> FlipStep(obj, st, name)
      [] obj.kind = "Pad"              -> PadStep(obj, st, name)
      [] obj.kind = "RandomCrop"       -> RandomCropStep(obj, st, name)

\* The loop over the configured names, in the insertion order of the dict
\* the consumer passed; an exception leaves the loop with the entries written
\* so far in place.
RECURSIVE TransformFrom(_, _, _)
TransformFrom(obj, st, k) ==
    IF k > Len(obj.keys) \/ st.exc # "" THEN st
    ELSE TransformFrom(obj, TransformStep(obj, st, obj.keys[k]), k + 1)
Transform(obj, data) == TransformFrom(obj, LoopState(data, obj.rnd), 1)

\* -------------------------------------------------------------- generators
VARIABLES named_data,  \* the mapping the consumer gave to the base iterator
          iters,       \* the iterator objects, in order of construction
          gens,        \* the generator objects, in order of creation
          stdout,      \* the chunks of text written to sys.stdout
          failure      \* the exception the consumer has seen last, if any
vars == << named_data, iters, gens, stdout, failure >>

\* A generator created by it.__call__(handler, verbose).  pc is "start"
\* before the first next(), "suspended" at a yield, "done" after the body
\* returned or raised.  inner is the generator a decorator iterates over,
\* indices and pbar are the locals of Online and Minibatches, n counts the
\* batches yielded, rows/cols are the offsets RandomCrop drew last, log keeps
\* every batch as it was when it was yielded, kept holds the names of the
\* batch a decorator yielded last whose array object is the one it received,
\* signals keeps the counts sent to the reporter.
Generator(it, verbose, top) ==
    [it |-> it, verbose |-> verbose, top |-> top, pc |-> "start", inner |-> 0,
     indices |-> << >>, n |-> 0, pbar |-> PbarStart(FALSE, 0),
     rows |-> << >>, cols |-> << >>, log |-> << >>,
     kept |-> {}, signals |-> << >>]

Yielded(data, alias) == [tag |-> "batch", data |-> data, alias |-> alias, exc |-> ""]
Stopped == [tag |-> "stop", data |-> NoMap, alias |-> 0, exc |-> ""]
Raised(exc) == [tag |-> "raise", data |-> NoMap, alias |-> 0, exc |-> exc]

World(i, g, o) == [iters |-> i, gens |-> g, stdout |-> o]
Outcome(w, res) == [w |-> w, res |-> res]

Finish(w, g, res) == Outcome([w EXCEPT !.gens[g].pc = "done"], res)

\* Undivided.__call__: yield self.data (the dict object itself), then return
UndividedNext(w, g) ==
    LET gen == w.gens[g]
    IN  IF gen.pc = "start"
        THEN Outcome([w EXCEPT !.gens[g].pc = "suspended",
                               !.gens[g].n = 1,
                               !.gens[g].log = Append(@, w.iters[gen.it].data)],
                     Yielded(w.iters[gen.it].data, gen.it))
        ELSE Finish(w, g, Stopped)

\* OnlineBatch with a slice one sample too wide
OnlineBatchWide(obj, idx) ==
    [k \in DOMAIN obj.data |-> SliceSamples(obj.data[k], idx, idx + 2)]

\* {k: v[:, idx: idx + 1] for k, v in self.data.items()}
OnlineBatch(obj, idx) ==
    [k \in DOMAIN obj.data |-> SliceSamples(obj.data[k], idx, idx + 1)]

\* MinibatchesBatch with a slice that stops one sample early
MinibatchesBatchShort(obj, idx) ==
    [k \in DOMAIN obj.data |->
        SliceSamples(obj.data[k], idx * obj.batch_size,
                     (idx + 1) * obj.batch_size - 1)]

\* {k: v[:, idx * batch_size: (idx + 1) * batch_size] for k, v in ...}
MinibatchesBatch(obj, idx) ==
    [k \in DOMAIN obj.data |->
        SliceSamples(obj.data[k], idx * obj.batch_size,
                     (idx + 1) * obj.batch_size)]

BaseBatch(obj, idx) ==
    IF obj.kind = "Online" THEN OnlineBatch(obj, idx)
    ELSE MinibatchesBatch(obj, idx)

\* np.arange(...) of Online.__call__ and Minibatches.__call__
BaseIndices(obj) ==
    IF obj.kind = "Online" THEN Arange(obj.nr_sequences)
    ELSE Arange(CeilDiv(obj.nr_sequences, obj.batch_size))

\* BaseProgress that counts the batches before the one just yielded
BaseProgressLate(obj, n) ==
    IF obj.kind = "Online" THEN n - 1 ELSE (n - 1) * obj.batch_size

\* argument of p_bar.send after the n-th batch
BaseProgress(obj, n) == IF obj.kind = "Online" THEN n ELSE n * obj.batch_size

\* head of `for i, idx in enumerate(indices)`: yield the next batch in a
\* fresh dict, or return
BaseLoop(w, g) ==
    LET gen == w.gens[g]
        obj == w.iters[gen.it]
    IN  IF gen.n < Len(gen.indices)
        THEN LET data == BaseBatch(obj, gen.indices[gen.n + 1])
             IN  Outcome([w EXCEPT !.gens[g].pc = "suspended",
                                   !.gens[g].n = gen.n + 1,
                                   !.gens[g].log = Append(@, data)],
                         Yielded(data, 0))
        ELSE Finish(w, g, Stopped)

\* Online.__call__ and Minibatches.__call__ from the first next() to the
\* first yield: choose the reporter, print its prefix, build and shuffle
\* the indices
BaseStart(w, g) ==
    LET gen    == w.gens[g]
        obj    == w.iters[gen.it]
        active == UseProgressBar(obj.verbose, gen.verbose)
        out    == IF active THEN << Chunk(TRUE, 0, 0, FALSE) >> ELSE << >>
        w1     == [w EXCEPT !.stdout = w.stdout \o out,
                            !.gens[g].pbar = PbarStart(active, obj.nr_sequences)]
    IN  IF obj.kind = "Minibatches" /\ obj.batch_size = 0
        THEN Finish(w1, g, Raised("ZeroDivisionError"))
        ELSE LET indices == BaseIndices(obj)
                 w2 == IF obj.shuffle
                       THEN [w1 EXCEPT
                               !.gens[g].indices = Shuffle(indices, obj.rnd),
                               !.iters[gen.it].rnd =
                                   RndSkip(obj.rnd, ShuffleDraws(indices))]
                       ELSE [w1 EXCEPT !.gens[g].indices = indices]
             IN  BaseLoop(w2, g)

\* Online.__call__ and Minibatches.__call__ resumed after a yield: advance
\* the reporter, print what it returns, go to the head of the loop
BaseResume(w, g) ==
    LET gen  == w.gens[g]
        obj  == w.iters[gen.it]
        sent == PbarSend(gen.pbar, BaseProgress(obj, gen.n))
        w1   == [w EXCEPT !.stdout = w.stdout \o sent.out,
                          !.gens[g].pbar = sent.pbar,
                          !.gens[g].signals =
                              Append(@, BaseProgress(obj, gen.n))]
    IN  IF sent.raised THEN Finish(w1, g, Raised("RuntimeError"))
        ELSE BaseLoop(w1, g)

\* next() on generator g: runs it to its next yield, to its return, or to
\* the exception that leaves it.  A decorator's generator iterates over
\* self.iter(handler, verbose=verbose), created at the first next(); every
\* batch it receives is rewritten in the dict object that holds it.
RECURSIVE GenNext(_, _)
GenNext(w, g) ==
    LET gen == w.gens[g]
        obj == w.iters[gen.it]
    IN  IF gen.pc = "done" THEN Outcome(w, Stopped)
        ELSE IF obj.kind = "Undivided" THEN UndividedNext(w, g)
        ELSE IF obj.kind \in {"Online", "Minibatches"}
             THEN IF gen.pc = "start" THEN BaseStart(w, g) ELSE BaseResume(w, g)
        ELSE LET w1 == IF gen.pc = "start"
                       THEN [w EXCEPT
                               !.gens = Append(w.gens,
                                          Generator(obj.iter, gen.verbose, FALSE)),
                               !.gens[g].inner = Len(w.gens) + 1,
                               !.gens[g].pc = "suspended"]
                       ELSE w
                 r  == GenNext(w1, w1.gens[g].inner)
             IN  IF r.res.tag # "batch" THEN Finish(r.w, g, r.res)
                 ELSE LET st == Transform(obj, r.res.data)
                          w2 == [r.w EXCEPT !.iters[gen.it].rnd = st.rnd]
                          w3 == IF r.res.alias = 0 THEN w2
                                ELSE [w2 EXCEPT !.iters[r.res.alias].data = st.data]
                      IN  IF st.exc # "" THEN Finish(w3, g, Raised(st.exc))
                          ELSE Outcome([w3 EXCEPT
                                          !.gens[g].n = gen.n + 1,
                                          !.gens[g].rows = st.rows,
                                          !.gens[g].cols = st.cols,
                                          !.gens[g].kept = st.kept,
                                          !.gens[g].log = Append(@, st.data)],
                                       Yielded(st.data, r.res.alias))

\* ------------------------------------------------------------------ inputs
\* An array whose cells hold 1, 2, 3, ... in C order
DataArray(shape) == [shape |-> shape, flat |-> [k \in 1..Prod(shape) |-> k]]

\* A dataset: an image array "default" of rank 5 and a "targets" array of
\* rank 3 with the same time and sample extents
Dataset(shape) ==
    [n \in Names |-> IF n = "default" THEN DataArray(shape)
                     ELSE DataArray(<< shape[1], shape[2], 1 >>)]

Seeds == 0..MaxSeed
VerboseSettings == {"None", "True", "False"}
Only(v) == [n \in {"default"} |-> v]
\* the insertion orders of a dict with these keys, and the dicts that hold
\* the entries of a map
Orders(S) ==
    {keys \in [1..Cardinality(S) -> S] :
        \A i, j \in 1..Cardinality(S) : keys[i] = keys[j] => i = j}
Dicts(map) == {Dict(keys, map) : keys \in Orders(DOMAIN map)}

\* Inputs of the pipeline specification: one dataset of MaxB samples with
\* images of 2 by 3 cells, and for every decorator a few configurations that
\* its constructor accepts and a few that it rejects.
PipelineShape == << 2, MaxB - 1, 1, 2, 3 >>
DecoratorSeeds == {0}
PadConfigs ==
    {<< Only(s), None >> : s \in 0..MaxPad}
    \cup {<< Only(MaxPad), Some(Only(9)) >>, << NoMap, None >>,
          << Only(1), Some(NoMap) >>, << [n \in {"targets"} |-> 1], None >>}
CropConfigs ==
    {Only(<< 0, 3 >>), Only(<< 1, 1 >>), Only(<< 2, 3 >>),
     Only(<< 3, 3 >>), Only(<< 1 >>), [n \in {"missing"} |-> << 1, 1 >>]}
FlipConfigs ==
    {Some(d) : d \in Dicts(Only(100)) \cup Dicts(Only(150))} \cup {None}
NoiseConfigs == {<< Only(2), None >>, << Only(2), Some(NoMap) >>,
                 << [n \in {"missing"} |-> 1], None >>,
                 << [n \in {"missing"} |-> 1], Some(Only(0)) >>}

\* ----------------------------------------------------------------- actions
\* An exception that reached the consumer: the operation that raised it
\* ("init" of a decorator or "next" of a generator), the class constructed
\* and the arguments given to its constructor.
NoFailure ==
    [op |-> "", exc |-> "", kind |-> "", iter |-> 0, cfg |-> NoDict, aux |-> None]
InitFailure(exc, kind, iter, cfg, aux) ==
    [op |-> "init", exc |-> exc, kind |-> kind, iter |-> iter, cfg |-> cfg,
     aux |-> aux]
NextFailure(exc, g) == [NoFailure EXCEPT !.op = "next", !.exc = exc, !.iter = g]

TopGens == {g \in 1..Len(gens) : gens[g].top}
Newest == CHOOSE g \in TopGens : \A h \in TopGens : h <= g

\* The consumer constructs a decorator around an existing iterator; a
\* constructor that raises leaves no object behind.  The consumer catches
\* no exception: the first one it sees ends the program.
Construct(r, kind, iter, cfg, aux) ==
    /\ failure = NoFailure
    /\ Len(iters) - 1 < MaxDecorators
    /\ IF r.tag = "ok"
       THEN iters' = Append(iters, r.value) /\ failure' = failure
       ELSE iters' = iters /\ failure' = InitFailure(r.exc, kind, iter, cfg, aux)
    /\ UNCHANGED << named_data, gens, stdout >>

NewAddGaussianNoise ==
    \E iter \in 1..Len(iters), c \in NoiseConfigs, seed \in DecoratorSeeds :
        \E std_dict \in Dicts(c[1]) :
            Construct(AddGaussianNoiseInit(iters, iter, std_dict, c[2], seed),
                      "AddGaussianNoise", iter, std_dict, c[2])

NewFlip ==
    \E iter \in 1..Len(iters), prob_dict \in FlipConfigs, seed \in DecoratorSeeds :
        Construct(FlipInit(iters, iter, prob_dict, seed),
                  "Flip", iter, NoDict, prob_dict)

NewPad ==
    \E iter \in 1..Len(iters), c \in PadConfigs, seed \in DecoratorSeeds :
        \E size_dict \in Dicts(c[1]) :
            Construct(PadInit(iters, iter, size_dict, c[2], seed),
                      "Pad", iter, size_dict, c[2])

NewRandomCrop ==
    \E iter \in 1..Len(iters), c \in CropConfigs, seed \in DecoratorSeeds :
        \E shape_dict \in Dicts(c) :
            Construct(RandomCropInit(iters, iter, shape_dict, seed),
                      "RandomCrop", iter, shape_dict, None)

\* CallWith that runs the body to its first yield
CallWithEager(it, verbose) ==
    /\ failure = NoFailure
    /\ Cardinality(TopGens) < MaxCalls
    /\ LET r == GenNext(World(iters, Append(gens, Generator(it, verbose, TRUE)),
                              stdout), Len(gens) + 1)
       IN  /\ iters' = r.w.iters
           /\ gens' = r.w.gens
           /\ stdout' = r.w.stdout
    /\ UNCHANGED << named_data, failure >>

\* it(handler, verbose): creates a generator, runs nothing
CallWith(it, verbose) ==
    /\ failure = NoFailure
    /\ Cardinality(TopGens) < MaxCalls
    /\ gens' = Append(gens, Generator(it, verbose, TRUE))
    /\ UNCHANGED << named_data, iters, stdout, failure >>

\* next(g) on a generator the consumer holds
NextOf(g) ==
    /\ failure = NoFailure
    /\ gens[g].pc # "done"
    /\ LET r == GenNext(World(iters, gens, stdout), g)
       IN  /\ iters' = r.w.iters
           /\ gens' = r.w.gens
           /\ stdout' = r.w.stdout
           /\ failure' = IF r.res.tag = "raise"
                         THEN NextFailure(r.res.exc, g) ELSE failure
    /\ UNCHANGED named_data

\* The consumer of a pipeline makes one pass at a time: it calls any
\* iterator it has constructed once the sequence it obtained before has
\* ended, and pulls from the sequence it obtained last.
Call ==
    \E it \in 1..Len(iters) :
        /\ \A g \in TopGens : gens[g].pc = "done"
        /\ CallWith(it, FALSE)
Pull == TopGens # {} /\ NextOf(Newest)

PipelineBases(data) == {Undivided(data), Online(TRUE, "None", 0, data)}

Init ==
    /\ named_data = Dataset(PipelineShape)
    /\ iters \in {<< b >> : b \in PipelineBases(named_data)}
    /\ gens = << >>
    /\ stdout = << >>
    /\ failure = NoFailure

Next ==
    \/ NewAddGaussianNoise
    \/ NewFlip
    \/ NewPad
    \/ NewRandomCrop
    \/ Call
    \/ Pull

Spec == Init /\ [][Next]_vars

\* ------------------------------------------- base iterators on their own
\* Inputs of the base specification: datasets of 0..MaxB samples and one of
\* BarSamples samples (as many as the bar has characters, where the double
\* arithmetic of the reporter falls short of the exact quotient), Online and
\* Minibatches with every setting of shuffle and verbose, seeds 0..MaxSeed
\* and batch sizes MinBatch..MaxBatch (the constructor accepts any number),
\* called with verbose on and off.  The consumer makes one pass at a time.
BarSamples == 50
BaseShapes == {<< 2, b, 1, 1, 2 >> : b \in (0..MaxB) \cup {BarSamples}}

BaseObjects(data) ==
    {Online(sh, v, s, data) :
        sh \in BOOLEAN, v \in VerboseSettings, s \in Seeds}
    \cup {Minibatches(k, sh, v, s, data) :
            k \in MinBatch..MaxBatch, sh \in BOOLEAN, v \in VerboseSettings,
            s \in Seeds}

InitBase ==
    /\ named_data \in {Dataset(shape) : shape \in BaseShapes}
    /\ iters \in {<< b >> : b \in BaseObjects(named_data)}
    /\ gens = << >>
    /\ stdout = << >>
    /\ failure = NoFailure

BaseCall ==
    \E verbose \in BOOLEAN :
        /\ \A g \in TopGens : gens[g].pc = "done"
        /\ CallWith(1, verbose)
BasePull == TopGens # {} /\ NextOf(Newest)

NextBase == BaseCall \/ BasePull

SpecBase == InitBase /\ [][NextBase]_vars

\* ------------------------------ sequences of one base iterator interleaved
\* Inputs of the shared specification: the datasets of the base
\* specification, Online and Minibatches with shuffle on and off, every seed
\* and batch size, silent.  The consumer obtains up to MaxCalls sequences from
\* the one iterator at any time and pulls from any of them in any order.
SharedObjects(data) ==
    {Online(sh, "False", s, data) : sh \in BOOLEAN, s \in Seeds}
    \cup {Minibatches(k, sh, "False", s, data) :
            k \in MinBatch..MaxBatch, sh \in BOOLEAN, s \in Seeds}

InitShared ==
    /\ named_data \in {Dataset(shape) : shape \in BaseShapes}
    /\ iters \in {<< b >> : b \in SharedObjects(named_data)}
    /\ gens = << >>
    /\ stdout = << >>
    /\ failure = NoFailure

SharedCall == CallWith(1, FALSE)
SharedPull == \E g \in TopGens : NextOf(g)

NextShared == SharedCall \/ SharedPull

SpecShared == InitShared /\ [][NextShared]_vars

\* ------------------------------------------ one decorator around a base
\* Inputs of the wrapped specification: one dataset of MaxB samples with
\* images of 2 by 2 cells; a base iterator of every class, with every setting
\* of shuffle and verbose; around it one decorator of every class, with a
\* configuration its constructor accepts.  The consumer calls the decorator
\* or the base iterator, with verbose on or off, one pass at a time.
WrappedShape == << 1, MaxB, 1, 2, 2 >>

WrappedBases(data) ==
    {Undivided(data)}
    \cup {Online(sh, v, 0, data) : sh \in BOOLEAN, v \in VerboseSettings}
    \cup {Minibatches(MaxBatch, sh, v, 0, data) :
            sh \in BOOLEAN, v \in VerboseSettings}

WrappedResults(its) ==
    {FlipInit(its, 1, p, 1) :
        p \in {None} \cup {Some(d) : d \in Dicts(Only(0)) \cup Dicts(Only(100))}}
    \cup {PadInit(its, 1, d, None, 1) :
            d \in UNION {Dicts(Only(size)) : size \in {0, MaxPad}}}
    \cup {RandomCropInit(its, 1, d, 1) : d \in Dicts(Only(<< 1, 1 >>))}
    \cup {AddGaussianNoiseInit(its, 1, d, None, 1) : d \in Dicts(Only(2))}

InitWrapped ==
    /\ named_data = Dataset(WrappedShape)
    /\ iters \in UNION {{<< b, r.value >> :
                            r \in {x \in WrappedResults(<< b >>) : x.tag = "ok"}} :
                        b \in WrappedBases(named_data)}
    /\ gens = << >>
    /\ stdout = << >>
    /\ failure = NoFailure

WrappedCall ==
    \E it \in 1..Len(iters), verbose \in BOOLEAN :
        /\ \A g \in TopGens : gens[g].pc = "done"
        /\ CallWith(it, verbose)
WrappedPull == TopGens # {} /\ NextOf(Newest)

NextWrapped == WrappedCall \/ WrappedPull

SpecWrapped == InitWrapped /\ [][NextWrapped]_vars

\* ------------------------------------- AddGaussianNoise around a base
\* Inputs of the noise specification: the dataset and the base iterators of
\* the wrapped specification; around the base iterator AddGaussianNoise with
\* a standard deviation for "default" and no mean map, with a mean map, and
\* with standard deviations and means for both names, given in either order.
NoiseResults(its) ==
    {AddGaussianNoiseInit(its, 1, d, None, 1) : d \in Dicts(Only(2))}
    \cup {AddGaussianNoiseInit(its, 1, d, Some(Only(1)), 1) :
            d \in Dicts(Only(2))}
    \cup {AddGaussianNoiseInit(its, 1, d, Some([n \in Names |-> 2]), 1) :
            d \in Dicts([n \in Names |-> 1])}

InitNoise ==
    /\ named_data = Dataset(WrappedShape)
    /\ iters \in UNION {{<< b, r.value >> :
                            r \in {x \in NoiseResults(<< b >>) : x.tag = "ok"}} :
                        b \in WrappedBases(named_data)}
    /\ gens = << >>
    /\ stdout = << >>
    /\ failure = NoFailure

NoiseCall ==
    \E it \in 1..Len(iters) :
        /\ \A g \in TopGens : gens[g].pc = "done"
        /\ CallWith(it, FALSE)
NoisePull == TopGens # {} /\ NextOf(Newest)

NextNoise == NoiseCall \/ NoisePull

SpecNoise == InitNoise /\ [][NextNoise]_vars

\* ------------------------------------- construction of the base iterators
\* Inputs of the construction specification: every mapping from a subset of
\* Names (the empty one included) to a value without a shape or an array of
\* rank 2, 3 or 5 with 1 or 2 time steps and 1 or MaxB samples.
MappingShapes ==
    {<< t, b >> : t \in 1..2, b \in {1, MaxB}}
    \cup {<< t, b, 1 >> : t \in 1..2, b \in {1, MaxB}}
    \cup {<< t, b, 1, 1, 2 >> : t \in 1..2, b \in {1, MaxB}}
MappingValues == {NoShape} \cup {DataArray(shape) : shape \in MappingShapes}
Mappings == UNION {[S -> MappingValues] : S \in SUBSET Names}

\* The consumer constructs one base iterator from the mapping; a constructor
\* that raises leaves no object behind.
ConstructBase(r, kind) ==
    /\ failure = NoFailure
    /\ iters = << >>
    /\ IF r.tag = "ok"
       THEN iters' = << r.value >> /\ failure' = failure
       ELSE iters' = iters /\ failure' = InitFailure(r.exc, kind, 0, NoDict, None)
    /\ UNCHANGED << named_data, gens, stdout >>

NewUndivided == ConstructBase(UndividedInit(named_data), "Undivided")

NewOnline ==
    \E shuffle \in BOOLEAN :
        ConstructBase(OnlineInit(shuffle, "None", 0, named_data), "Online")

NewMinibatches ==
    \E batch_size \in 1..MaxBatch :
        ConstructBase(MinibatchesInit(batch_size, TRUE, "None", 0, named_data),
                      "Minibatches")

InitConstruct ==
    /\ named_data \in Mappings
    /\ iters = << >>
    /\ gens = << >>
    /\ stdout = << >>
    /\ failure = NoFailure

NextConstruct == NewUndivided \/ NewOnline \/ NewMinibatches

SpecConstruct == InitConstruct /\ [][NextConstruct]_vars

\* ------------------------------------------------------------- properties
AllGens == 1..Len(gens)
KindOf(g) == iters[gens[g].it].kind
Done(g) == gens[g].pc = "done"
ShapesOf(batch) == [n \in DOMAIN batch |-> batch[n].shape]
Cell(a, idx) == a.flat[LinFrom(Strides(a.shape), idx, 1)]
IndexOf(a, k) == Unlin(a.shape, Strides(a.shape), k - 1)

\* The iterator draws nothing from a random generator: Undivided, Online and
\* Minibatches with shuffle off, and Pad over one of these.
RECURSIVE NoRandomness(_)
NoRandomness(it) ==
    LET obj == iters[it]
    IN  CASE obj.kind = "Undivided" -> TRUE
          [] obj.kind \in {"Online", "Minibatches"} -> ~obj.shuffle
          [] obj.kind = "Pad" -> NoRandomness(obj.iter)
          [] OTHER -> FALSE

\* The result of constructing a decorator of the given class
InitResult(kind, its, iter, cfg, aux, seed) ==
    CASE kind = "AddGaussianNoise" -> AddGaussianNoiseInit(its, iter, cfg, aux, seed)
      [] kind = "Flip"             -> FlipInit(its, iter, aux, seed)
      [] kind = "Pad"              -> PadInit(its, iter, cfg, aux, seed)
      [] kind = "RandomCrop"       -> RandomCropInit(its, iter, cfg, seed)

\* C1: the mapping name -> array stored in the base iterator equals, entry
\* for entry, the mapping supplied at construction, whatever was invoked and
\* pulled through the decorators that wrap it.
C1_DatasetReadOnly == iters[1].data = named_data

\* C2: constructing a decorator around a constructed decorator, with a
\* configuration that is valid for the data (the base iterator accepts it),
\* succeeds, and a decorator has yielded one batch for every batch its inner
\* iterator has yielded.
C2_ChainsToAnyDepth ==
    /\ ~(/\ failure.op = "init"
         /\ iters[failure.iter].kind \notin {"Undivided", "Online", "Minibatches"}
         /\ InitResult(failure.kind, iters, 1, failure.cfg, failure.aux, 0).tag = "ok")
    /\ failure = NoFailure =>
         \A g \in AllGens :
            gens[g].inner # 0 => Len(gens[g].log) = Len(gens[gens[g].inner].log)

\* C3: once a base iterator and the decorators around it are constructed,
\* no pull of a batch raises an error.
C3_NoErrorAfterConstruction == failure.op # "next"

\* C4: two sequences obtained from the same iterator, each consumed to its
\* end, have the same number of batches and, position by position, batches
\* of the same shapes.
C4_RestartSameShapes ==
    failure = NoFailure =>
        \A g, h \in TopGens :
            gens[g].it = gens[h].it /\ Done(g) /\ Done(h) =>
                /\ Len(gens[g].log) = Len(gens[h].log)
                /\ \A i \in 1..Len(gens[g].log) :
                      ShapesOf(gens[g].log[i]) = ShapesOf(gens[h].log[i])

\* C5: two sequences obtained from the same iterator that uses no
\* randomness, each consumed to its end, hold the same batches.
C5_RestartSameContent ==
    failure = NoFailure =>
        \A g, h \in TopGens :
            /\ gens[g].it = gens[h].it /\ Done(g) /\ Done(h)
            /\ NoRandomness(gens[g].it)
            => gens[g].log = gens[h].log

\* sample extent of a batch, when all its arrays agree on it (else -1)
ExtentOf(batch) ==
    IF \A n \in DOMAIN batch : batch[n].shape[2] = batch["default"].shape[2]
    THEN batch["default"].shape[2] ELSE 0 - 1

\* sample extent of the last block of n samples in blocks of k
LastExtent(n, k) == IF n % k # 0 THEN n % k ELSE k

\* C6 as stated: one invocation of Minibatches with batch size k >= 1 yields
\* ceil(n/k) batches; in yield order all but the last have sample extent k
\* and the last has n mod k when that is non-zero, else k.
C6_SizesInYieldOrder ==
    \A g \in AllGens :
        LET obj == iters[gens[g].it]
            n   == obj.nr_sequences
            k   == obj.batch_size
            nb  == CeilDiv(n, k)
        IN  obj.kind = "Minibatches" /\ k >= 1 /\ Done(g) =>
              /\ Len(gens[g].log) = nb
              /\ \A i \in 1..Len(gens[g].log) :
                    ExtentOf(gens[g].log[i]) =
                        IF i < nb THEN k ELSE LastExtent(n, k)

\* C6 amended: one invocation of Minibatches with batch size k >= 1 yields
\* ceil(n/k) batches, one per block index; every batch has sample extent k
\* except the batch of the last block index, which has n mod k when that is
\* non-zero, else k; with shuffle off the blocks are yielded in index order.
C6_SizesByBlock ==
    \A g \in AllGens :
        LET obj == iters[gens[g].it]
            n   == obj.nr_sequences
            k   == obj.batch_size
            nb  == CeilDiv(n, k)
            idx == gens[g].indices
        IN  obj.kind = "Minibatches" /\ k >= 1 /\ gens[g].pc # "start" =>
              /\ Len(idx) = nb
              /\ {idx[i] : i \in 1..nb} = 0..(nb - 1)
              /\ ~obj.shuffle => idx = Arange(nb)
              /\ Len(gens[g].log) <= nb
              /\ Done(g) => Len(gens[g].log) = nb
              /\ \A i \in 1..Len(gens[g].log) :
                    ExtentOf(gens[g].log[i]) =
                        IF idx[i] = nb - 1 THEN LastExtent(n, k) ELSE k

\* C6 witness: a shuffled pass has ended whose first batch is the short one
C6_Witness ==
    \E g \in AllGens :
        LET obj == iters[gens[g].it]
        IN  /\ obj.kind = "Minibatches" /\ obj.shuffle /\ Done(g)
            /\ obj.batch_size >= 1
            /\ obj.nr_sequences % obj.batch_size # 0
            /\ Len(gens[g].log) >= 2
            /\ ExtentOf(gens[g].log[1]) < obj.batch_size

\* index of the sample an Online batch holds, read from its cells: cell
\* (0, b, 0) of "targets" holds b + 1, cell (0, b, 0, 0, 0) of "default"
\* holds b * H * W + 1
TargetSample(batch) == batch["targets"].flat[1] - 1
DefaultSample(batch) ==
    (batch["default"].flat[1] - 1)
        \div (named_data["default"].shape[4] * named_data["default"].shape[5])

\* C7: one invocation of Online yields one batch per sample, each with
\* sample extent 1 and the time extent of the dataset; the samples yielded
\* are distinct samples of the dataset (a permutation of 0..n-1 at the end),
\* in the original order when shuffle is off.
C7_OnlineOneSamplePerBatch ==
    \A g \in AllGens :
        LET obj == iters[gens[g].it]
            n   == obj.nr_sequences
            log == gens[g].log
        IN  obj.kind = "Online" =>
              /\ Len(log) <= n
              /\ Done(g) => Len(log) = n
              /\ \A i \in 1..Len(log) :
                    /\ \A name \in Names :
                          /\ log[i][name].shape[2] = 1
                          /\ log[i][name].shape[1] = named_data[name].shape[1]
                          /\ Len(log[i][name].shape) = Len(named_data[name].shape)
                    /\ TargetSample(log[i]) \in 0..(n - 1)
                    /\ DefaultSample(log[i]) = TargetSample(log[i])
                    /\ ~obj.shuffle => TargetSample(log[i]) = i - 1
              /\ \A i, j \in 1..Len(log) :
                    i # j => TargetSample(log[i]) # TargetSample(log[j])

\* C7 witness: a shuffled pass over two or more samples has ended and did
\* not start with sample 0
C7_Witness ==
    \E g \in AllGens :
        /\ KindOf(g) = "Online" /\ iters[gens[g].it].shuffle /\ Done(g)
        /\ Len(gens[g].log) >= 2
        /\ TargetSample(gens[g].log[1]) # 0

\* C8: every invocation of Undivided yields exactly one batch, identical
\* in names, shapes and values to the dataset supplied at construction.
C8_UndividedYieldsDataset ==
    \A g \in AllGens :
        KindOf(g) = "Undivided" =>
            /\ Len(gens[g].log) <= 1
            /\ gens[g].pc # "start" =>
                  Len(gens[g].log) = 1 /\ gens[g].log[1] = named_data

\* the array out is the array in inside a frame of s cells holding val
PadOutputOf(in, out, s, val) ==
    /\ out.shape = [in.shape EXCEPT ![4] = in.shape[4] + 2 * s,
                                    ![5] = in.shape[5] + 2 * s]
    /\ Len(out.flat) = Prod(out.shape)
    /\ \A k \in 1..Len(out.flat) :
          LET idx == IndexOf(out, k)
          IN  IF /\ s <= idx[4] /\ idx[4] < s + in.shape[4]
                 /\ s <= idx[5] /\ idx[5] < s + in.shape[5]
              THEN out.flat[k] = Cell(in, [idx EXCEPT ![4] = idx[4] - s,
                                                      ![5] = idx[5] - s])
              ELSE out.flat[k] = val

\* C9: for every pad size s the constructor accepted and every batch, the
\* array Pad yields for a configured name has shape (T,B,C,H+2s,W+2s), its
\* interior of H by W cells at offset (s,s) equals the array of the inner
\* iterator, and every other cell holds the pad value (0 when none is
\* configured).
C9_PadOutput ==
    \A g \in AllGens :
        LET obj == iters[gens[g].it]
        IN  obj.kind = "Pad" =>
              \A name \in DOMAIN obj.cfg, i \in 1..Len(gens[g].log) :
                  PadOutputOf(gens[gens[g].inner].log[i][name],
                              gens[g].log[i][name],
                              obj.cfg[name], Get(obj.aux, name, 0))

\* C10: for every batch that reaches a constructed RandomCrop, the output
\* array of a configured name has spatial shape (ch,cw) with T, B and C
\* unchanged, and the offsets drawn for every sample satisfy 0 <= r,
\* r + ch <= h, 0 <= c, c + cw <= w, (h,w) being the spatial shape of the
\* batch received.
C10_CropOutput ==
    \A g \in AllGens :
        LET obj   == iters[gens[g].it]
            log   == gens[g].log
            inlog == gens[gens[g].inner].log
        IN  obj.kind = "RandomCrop" /\ gens[g].pc # "start" =>
              \A name \in DOMAIN obj.cfg :
                  /\ Len(log) = Len(inlog)
                  /\ \A i \in 1..Len(log) :
                        log[i][name].shape =
                            [inlog[i][name].shape EXCEPT ![4] = obj.cfg[name][1],
                                                         ![5] = obj.cfg[name][2]]
                  /\ Len(log) > 0 =>
                        LET in == inlog[Len(log)][name]
                        IN  /\ Len(gens[g].rows) = in.shape[2]
                            /\ Len(gens[g].cols) = in.shape[2]
                            /\ \A b \in 1..in.shape[2] :
                                  /\ 0 <= gens[g].rows[b]
                                  /\ gens[g].rows[b] + obj.cfg[name][1] <= in.shape[4]
                                  /\ 0 <= gens[g].cols[b]
                                  /\ gens[g].cols[b] + obj.cfg[name][2] <= in.shape[5]

\* the names a constructor call configures (Flip's default map has the one
\* name "default")
ConfiguredNames(f) ==
    IF f.kind = "Flip"
    THEN (IF f.aux.some THEN DOMAIN f.aux.map.map ELSE {"default"})
    ELSE DOMAIN f.cfg.map

\* C12: every decorator constructor that fails over a base iterator fails
\* with IteratorValidationError; this includes AddGaussianNoise given a mean
\* map and Pad given a value map whose key set differs from the key set of
\* the first map.
C12_SingleErrorKind ==
    failure.op = "init" /\ iters[failure.iter].hasdata =>
        failure.exc = "IteratorValidationError"

\* C13: constructing a decorator over a base iterator with a configured name
\* that the base iterator's data does not have raises
\* IteratorValidationError, and every decorator that was constructed over a
\* base iterator configures names of its data only.
C13_AbsentNameRejected ==
    /\ failure.op = "init" /\ iters[failure.iter].hasdata
        /\ ~(ConfiguredNames(failure) \subseteq DOMAIN iters[failure.iter].data)
        => failure.exc = "IteratorValidationError"
    /\ \A it \in 1..Len(iters) :
          iters[it].iter # 0 /\ iters[iters[it].iter].hasdata =>
              DOMAIN iters[it].cfg \subseteq DOMAIN iters[iters[it].iter].data

\* the mapping breaks a rule of the validator: an entry without a shape or
\* of rank < 3, or entries that differ in the second or the first extent
BadFormat(data) ==
    \/ \E n \in DOMAIN data : ~HasShape(data[n])
    \/ \E n \in DOMAIN data : HasShape(data[n]) /\ Len(data[n].shape) < 3
    \/ /\ \A n \in DOMAIN data : HasShape(data[n]) /\ Len(data[n].shape) >= 3
       /\ \E n, m \in DOMAIN data :
             \/ data[n].shape[1] # data[m].shape[1]
             \/ data[n].shape[2] # data[m].shape[2]

\* C14: for every mapping, the empty one included, the constructor of a
\* base iterator raises IteratorValidationError when the mapping breaks a
\* rule of the validator and raises nothing otherwise; Online and Minibatches
\* then store the common second extent as nr_sequences.
C14_ValidatorRaisesOrReturns ==
    /\ failure.op = "init" =>
          failure.exc = "IteratorValidationError" /\ BadFormat(named_data)
    /\ iters # << >> =>
          /\ ~BadFormat(named_data)
          /\ iters[1].kind \in {"Online", "Minibatches"} =>
                \A n \in DOMAIN named_data :
                    iters[1].nr_sequences = named_data[n].shape[2]

\* out is the array in with the order of its last axis reversed
ReversedLast(in, out) ==
    /\ out.shape = in.shape
    /\ Len(out.flat) = Len(in.flat)
    /\ \A k \in 1..Len(out.flat) :
          LET idx == IndexOf(out, k)
              n   == Len(in.shape)
          IN  out.flat[k] = Cell(in, [idx EXCEPT ![n] = in.shape[n] - 1 - idx[n]])

\* C11: in every batch of every invocation, Flip yields the array of a name
\* with probability 1.0 (100 percent) reversed along its last axis relative
\* to the array the inner iterator produced for that batch, the array of a
\* name with probability 0.0 as the inner iterator produced it, and every
\* name outside the probability map as the inner iterator produced it.
C11_FlipOutput ==
    \A g \in AllGens :
        LET obj   == iters[gens[g].it]
            log   == gens[g].log
        IN  obj.kind = "Flip" /\ gens[g].inner # 0 =>
              /\ Len(log) = Len(gens[gens[g].inner].log)
              /\ \A i \in 1..Len(log) :
                    LET in == gens[gens[g].inner].log[i]
                    IN  /\ DOMAIN log[i] = DOMAIN in
                        /\ \A name \in DOMAIN in :
                              IF name \in DOMAIN obj.cfg /\ obj.cfg[name] = 100
                              THEN ReversedLast(in[name], log[i][name])
                              ELSE name \notin DOMAIN obj.cfg \/ obj.cfg[name] = 0
                                       => log[i][name] = in[name]

\* C11 witness: a second pass of Flip with probability 1.0 over Undivided
\* has yielded its batch, and the array differs from what it received
C11_Witness ==
    \E g, h \in TopGens :
        /\ h < g /\ gens[h].it = gens[g].it /\ Done(h)
        /\ KindOf(g) = "Flip" /\ iters[gens[g].it].cfg = Only(100)
        /\ iters[1].kind = "Undivided"
        /\ Len(gens[g].log) = 1
        /\ gens[g].log[1]["default"] # gens[gens[g].inner].log[1]["default"]

\* A generator that was created and not pulled has run nothing, and a
\* decorator's generator has received from its inner generator as many
\* batches as it has yielded, or one more.
C15_Lazy ==
    \A g \in AllGens :
        /\ gens[g].pc = "start" =>
              /\ gens[g].inner = 0 /\ gens[g].n = 0
              /\ gens[g].log = << >> /\ gens[g].indices = << >>
              /\ ~gens[g].pbar.active
        /\ gens[g].inner # 0 =>
              Len(gens[gens[g].inner].log) - Len(gens[g].log) \in {0, 1}

\* A step in which the consumer obtains a sequence changes no iterator (no
\* generator state), writes nothing and creates no other generator.
C15_CallStep ==
    Cardinality(TopGens') > Cardinality(TopGens) =>
        /\ iters' = iters
        /\ stdout' = stdout
        /\ \E it \in 1..Len(iters), verbose \in BOOLEAN :
              gens' = Append(gens, Generator(it, verbose, TRUE))

\* C15: invoking an iterator or a chain does no work until the first pull
\* (no random generator advances, no text is written, no inner iterator is
\* invoked or pulled), and a decorator has pulled from its inner iterator at
\* most one batch more than it has delivered.
C15_DemandDriven == [](C15_Lazy) /\ [][C15_CallStep]_vars

\* C15 witness: after a complete pass through a decorator, the decorator
\* was invoked again and not pulled yet
C15_Witness ==
    \E g, h \in TopGens :
        /\ h < g /\ gens[h].it = gens[g].it /\ Done(h)
        /\ gens[h].inner # 0 /\ Len(gens[h].log) >= 1
        /\ iters[gens[g].it].seeded /\ iters[1].shuffle
        /\ gens[g].pc = "start"

\* number of prefixes of the progress bar written to stdout
PrefixCount == Cardinality({i \in 1..Len(stdout) : stdout[i].pre})

\* C17: a generator of Online or Minibatches uses the active reporter
\* exactly when the iterator's own setting is True, or it is None and the
\* flag of the call is true (so never when the own setting is False); a
\* decorator's generator gives its inner generator the flag it received.
C17_VerbosityResolution ==
    /\ \A g \in AllGens :
          /\ gens[g].inner # 0 => gens[gens[g].inner].verbose = gens[g].verbose
          /\ KindOf(g) \in {"Online", "Minibatches"} /\ gens[g].pc # "start" =>
                LET own == iters[gens[g].it].verbose
                IN  gens[g].pbar.active <=>
                        (own = "True" \/ (own = "None" /\ gens[g].verbose))
    /\ PrefixCount =
          Cardinality({g \in AllGens :
              /\ KindOf(g) \in {"Online", "Minibatches"} /\ gens[g].pc # "start"
              /\ \/ iters[gens[g].it].verbose = "True"
                 \/ iters[gens[g].it].verbose = "None" /\ gens[g].verbose})

\* C17 witness: a sequence obtained from a decorator with the flag on, over
\* a base iterator whose own setting is None, was pulled and the prefix of
\* the progress bar was written
C17_Witness ==
    \E g \in TopGens :
        /\ gens[g].inner # 0 /\ gens[g].verbose
        /\ iters[1].verbose = "None"
        /\ gens[gens[g].inner].pbar.active
        /\ PrefixCount = 1

\* the iterators whose generators are on the chain below generator g
RECURSIVE ChainOf(_, _)
ChainOf(gs, g) ==
    {gs[g].it} \cup (IF gs[g].inner = 0 THEN {} ELSE ChainOf(gs, gs[g].inner))

\* the generators of iterator it that have been pulled at least once
StartedOf(it) == {g \in AllGens : gens[g].it = it /\ gens[g].pc # "start"}

\* Undivided, Pad and the unshuffled base iterators have drawn nothing; a
\* shuffled base iterator has drawn what the shuffles of its started
\* generators took; a decorator none of whose generators was pulled has
\* drawn nothing.
C19_Draws ==
    \A it \in 1..Len(iters) :
        LET obj == iters[it]
        IN  CASE obj.kind \in {"Undivided", "Pad"} -> obj.rnd.draws = 0
              [] obj.kind \in {"Online", "Minibatches"} ->
                    obj.rnd.draws =
                        IF obj.shuffle
                        THEN SumOver(StartedOf(it),
                                 [g \in StartedOf(it) |->
                                     Max(Len(gens[g].indices) - 1, 0)])
                        ELSE 0
              [] OTHER -> StartedOf(it) = {} => obj.rnd.draws = 0

\* A step changes the generator of a base iterator only by starting one of
\* its sequences, and the generator of a decorator only by pulling a
\* sequence whose chain holds the decorator.
C19_Step ==
    \A it \in 1..Len(iters) :
        iters'[it].rnd # iters[it].rnd =>
            /\ it \in ChainOf(gens', Newest)
            /\ iters[it].kind \in {"Online", "Minibatches"} =>
                  \E g \in 1..Len(gens') :
                      /\ gens'[g].it = it /\ gens'[g].pc # "start"
                      /\ g > Len(gens) \/ gens[g].pc = "start"
                      /\ iters'[it].rnd =
                            RndSkip(iters[it].rnd,
                                    Max(Len(gens'[g].indices) - 1, 0))

\* C19: every iterator's random generator is advanced by its own production
\* only: pulling through a decorator advances the inner iterator's generator
\* by the inner iterator's shuffle and by nothing else, the inner iterator
\* never advances the decorator's generator, and Undivided, Pad and Online or
\* Minibatches with shuffle off advance no generator.
C19_PrivateRnd == [](C19_Draws) /\ [][C19_Step]_vars

\* C19 witness: a pass through a drawing decorator over a shuffled base has
\* ended, both generators have advanced, and the base was then pulled alone
C19_Witness ==
    \E g, h \in TopGens :
        /\ h < g /\ Done(h) /\ gens[h].inner # 0
        /\ iters[gens[h].it].rnd.draws > 0
        /\ iters[1].shuffle /\ iters[1].rnd.draws > 0
        /\ gens[g].it = 1 /\ Len(gens[g].log) >= 1

\* the indices of the samples an array holds along its second axis, read
\* from its cells: the first cell of sample b of a dataset array holds
\* b * (cells per sample and time step) + 1
SamplesIn(a) ==
    LET inner == Prod(SubSeq(a.shape, 3, Len(a.shape)))
    IN  [j \in 1..a.shape[2] |-> (a.flat[(j - 1) * inner + 1] - 1) \div inner]

\* the number of batches of the log that hold the sample
TimesYielded(log, sample) ==
    Cardinality({i \in 1..Len(log) :
        \E j \in 1..Len(SamplesIn(log[i]["targets"])) :
            SamplesIn(log[i]["targets"])[j] = sample})

\* The batches a sequence has yielded are those of its indices, in order,
\* and a sequence that has ended without an error has yielded every sample
\* of the dataset in exactly one batch.
C16_EverySampleOnce ==
    \A g \in AllGens :
        LET obj == iters[gens[g].it]
            log == gens[g].log
        IN  /\ Len(log) <= Len(gens[g].indices)
            /\ \A i \in 1..Len(log) : log[i] = BaseBatch(obj, gens[g].indices[i])
            /\ Done(g) /\ failure = NoFailure =>
                  \A sample \in 0..(obj.nr_sequences - 1) :
                      TimesYielded(log, sample) = 1

\* No step changes the indices of a sequence that has started.
C16_OrderStep ==
    \A g \in 1..Len(gens) :
        gens[g].pc # "start" => gens'[g].indices = gens[g].indices

\* C16: the order of the batches of a sequence is fixed when the sequence
\* starts: with sequences of one Online or Minibatches object consumed
\* interleaved, starting or advancing one of them never changes the indices
\* the others still have to yield, and each sequence yields every sample
\* exactly once.
C16_OrderFixedAtStart == [](C16_EverySampleOnce) /\ [][C16_OrderStep]_vars

\* C18: the batch Minibatches yields for block index idx holds exactly the
\* samples idx*batch_size .. min((idx+1)*batch_size, n) - 1 in their
\* original order, under every name; the indices of one invocation are the
\* block indices 0..ceil(n/batch_size)-1, each once (in order when shuffle is
\* off); over a complete invocation every sample 0..n-1 is in exactly one
\* yielded batch.
C18_ContiguousBlocks ==
    \A g \in AllGens :
        LET obj == iters[gens[g].it]
            n   == obj.nr_sequences
            k   == obj.batch_size
            idx == gens[g].indices
            log == gens[g].log
        IN  obj.kind = "Minibatches" /\ gens[g].pc # "start" /\ k # 0 =>
              /\ Len(idx) = Max(CeilDiv(n, k), 0)
              /\ {idx[i] : i \in 1..Len(idx)} = 0..(CeilDiv(n, k) - 1)
              /\ ~obj.shuffle => idx = Arange(CeilDiv(n, k))
              /\ \A i \in 1..Len(log) : \A name \in DOMAIN log[i] :
                    LET lo == idx[i] * k
                        hi == Min((idx[i] + 1) * k, n)
                    IN  SamplesIn(log[i][name]) = [j \in 1..(hi - lo) |-> lo + j - 1]
              /\ Done(g) /\ failure = NoFailure =>
                    \A sample \in 0..(n - 1) : TimesYielded(log, sample) = 1

\* the values RandomCrop takes from its generator for the batches its
\* generator g received: one row offset and one column offset per sample
\* and configured name
CropDrawsOf(g) ==
    LET obj   == iters[gens[g].it]
        inlog == gens[gens[g].inner].log
    IN  SumOver(1..Len(inlog),
            [i \in 1..Len(inlog) |->
                SumOver(DOMAIN obj.cfg,
                    [name \in DOMAIN obj.cfg |-> 2 * inlog[i][name].shape[2]])])

\* the values Flip takes for the batches its generator g received: one per
\* configured name
FlipDrawsOf(g) ==
    Cardinality(DOMAIN iters[gens[g].it].cfg) * Len(gens[gens[g].inner].log)

\* C20: for every batch it receives, Flip takes exactly one value from its
\* generator per configured name, whatever the sample extent, and RandomCrop
\* exactly one row offset and one column offset per sample per configured
\* name, whatever the time extent.
C20_DrawsPerBatch ==
    \A it \in 1..Len(iters) :
        LET pulled == {g \in AllGens : gens[g].it = it /\ gens[g].inner # 0}
        IN  /\ iters[it].kind = "Flip" =>
                  iters[it].rnd.draws =
                      SumOver(pulled, [g \in pulled |-> FlipDrawsOf(g)])
            /\ iters[it].kind = "RandomCrop" =>
                  iters[it].rnd.draws =
                      SumOver(pulled, [g \in pulled |-> CropDrawsOf(g)])

\* out holds, cell by cell, the cells of in plus std times a standard normal
\* sample (one of -1, 0, 1 here) plus mean
NoisyOf(in, out, std, mean) ==
    /\ out.shape = in.shape
    /\ Len(out.flat) = Len(in.flat)
    /\ \A k \in 1..Len(out.flat) :
          \E z \in (0 - 1)..1 : out.flat[k] = in.flat[k] + std * z + mean

\* the values of every batch AddGaussianNoise has yielded: original + std *
\* noise + mean under a configured name (mean 0 when there is no mean map),
\* the array of the inner iterator under any other name
C21_Values ==
    \A g \in AllGens :
        LET obj == iters[gens[g].it]
            log == gens[g].log
        IN  obj.kind = "AddGaussianNoise" /\ gens[g].inner # 0 =>
              /\ Len(log) = Len(gens[gens[g].inner].log)
              /\ \A i \in 1..Len(log) :
                    LET in == gens[gens[g].inner].log[i]
                    IN  /\ DOMAIN log[i] = DOMAIN in
                        /\ \A name \in DOMAIN in :
                              IF name \in DOMAIN obj.cfg
                              THEN NoisyOf(in[name], log[i][name], obj.cfg[name],
                                           Get(obj.aux, name, 0))
                              ELSE log[i][name] = in[name]

\* C21 as stated: for each configured name the array object in the batch
\* AddGaussianNoise yields is the array object the inner iterator produced,
\* holding original + std * noise + mean; the other names are yielded
\* unchanged.
C21_NoiseInPlace ==
    /\ C21_Values
    /\ \A g \in AllGens :
          KindOf(g) = "AddGaussianNoise" /\ Len(gens[g].log) >= 1 =>
              gens[g].kept = DOMAIN gens[g].log[Len(gens[g].log)]

\* C21 amended: for each configured name AddGaussianNoise binds the name, in
\* the batch it received, to a new array holding original + std * noise +
\* mean; the array object the inner iterator produced is not written, so the
\* dataset of an Online or Minibatches base keeps its values; the other names
\* are yielded unchanged, as the objects received.
C21_NoiseRebinds ==
    /\ C21_Values
    /\ \A g \in AllGens :
          KindOf(g) = "AddGaussianNoise" /\ Len(gens[g].log) >= 1 =>
              gens[g].kept = DOMAIN gens[g].log[Len(gens[g].log)]
                                \ DOMAIN iters[gens[g].it].cfg
    /\ iters[1].kind \in {"Online", "Minibatches"} => iters[1].data = named_data

\* C21 witness: AddGaussianNoise with a mean map has yielded a second batch
\* of a shuffled Online pass, its "default" array differs from the one it
\* received and its "targets" array is the object it received
C21_Witness ==
    \E g \in TopGens :
        /\ KindOf(g) = "AddGaussianNoise" /\ iters[1].kind = "Online"
        /\ iters[1].shuffle /\ DOMAIN iters[gens[g].it].aux = {"default"}
        /\ Len(gens[g].log) = 2
        /\ gens[g].log[2]["default"] # gens[gens[g].inner].log[2]["default"]
        /\ gens[g].kept = {"targets"}

\* the generators that chose the active reporter, and the position in
\* stdout of the prefix each of them wrote (passes follow one another, so
\* the k-th of these generators wrote the k-th prefix)
ActiveGens == {g \in AllGens : gens[g].pc # "start" /\ gens[g].pbar.active}
PrefixAt == {i \in 1..Len(stdout) : stdout[i].pre}
FirstChunk(g) ==
    CHOOSE i \in PrefixAt :
        Cardinality({j \in PrefixAt : j <= i}) =
            Cardinality({h \in ActiveGens : h <= g})
\* the chunks generator g has written: from its prefix to the next one
ChunksOf(g) ==
    LET first == FirstChunk(g)
        later == {i \in PrefixAt : i > first}
        last  == IF later = {} THEN Len(stdout) ELSE SetMin(later) - 1
    IN  SubSeq(stdout, first, last)

\* C22: in a pass of Online or Minibatches with the active reporter, at
\* least one sample and batch_size >= 1, the reporter is sent one count
\* after each batch, when the consumer pulls again; the counts increase
\* strictly and only the last one reaches or exceeds the maximum; the
\* reporter is never sent a count after its final string (no pull raises);
\* the strings written are the prefix, then slices of the bar that follow one
\* another without gap or overlap, and when the pass has ended they are
\* prefix + the whole bar + suffix, every bar character written once.
C22_ProgressProtocol ==
    \A g \in ActiveGens :
        LET obj    == iters[gens[g].it]
            n      == obj.nr_sequences
            sig    == gens[g].signals
            chunks == ChunksOf(g)
        IN  /\ obj.kind \in {"Online", "Minibatches"}
            /\ n >= 1
            /\ obj.kind = "Minibatches" => obj.batch_size >= 1
            =>
            /\ failure = NoFailure
            /\ Len(sig) = IF Done(g) THEN Len(gens[g].log)
                                     ELSE Len(gens[g].log) - 1
            /\ \A i \in 1..Len(sig) :
                  /\ sig[i] = IF obj.kind = "Online" THEN i
                                                     ELSE i * obj.batch_size
                  /\ i > 1 => sig[i - 1] < sig[i]
                  /\ sig[i] >= n <=> i = Len(gens[g].indices)
            /\ gens[g].pbar.fin <=> Done(g)
            /\ Len(chunks) = 1 + Len(sig)
            /\ chunks[1] = Chunk(TRUE, 0, 0, FALSE)
            /\ \A i \in 2..Len(chunks) :
                  /\ ~chunks[i].pre
                  /\ chunks[i].lo = chunks[i - 1].hi
                  /\ chunks[i].lo <= chunks[i].hi
                  /\ chunks[i].suf <=> (Done(g) /\ i = Len(chunks))
                  /\ chunks[i].hi >= BarLen <=> (Done(g) /\ i = Len(chunks))
            /\ Done(g) =>
                  \A c \in 0..(BarLen - 1) :
                      Cardinality({i \in 2..Len(chunks) :
                          chunks[i].lo <= c /\ c < chunks[i].hi}) = 1

\* C22 witness: a verbose pass of Minibatches has ended whose last count
\* exceeded the number of samples, and the suffix was written
C22_Witness ==
    \E g \in ActiveGens :
        /\ KindOf(g) = "Minibatches" /\ Done(g) /\ failure = NoFailure
        /\ Len(gens[g].signals) >= 2
        /\ gens[g].signals[Len(gens[g].signals)] > iters[1].nr_sequences
        /\ stdout[Len(stdout)].suf
        /\ stdout[Len(stdout)].hi > BarLen
====
